---- MODULE Spec2Model ----
(***************************************************************************)
(* ClimeScope ESP32 firmware (Weather/src/main.cpp): the runtime loop, the *)
(* single-connection dashboard server (handleClient), the prediction       *)
(* client (getPredictions) with its substring extraction, the link         *)
(* association (connectToWiFi) and the air-quality classifier.             *)
(*                                                                         *)
(* Strings are sequences of one-character strings; String indexes are      *)
(* 0-based as in the Arduino String class.  Floating-point values are      *)
(* integers counting hundredths (104.18 is 10418); NaN is a value no      *)
(* reading takes.                                                          *)
(* millis() is an unsigned 32-bit counter, kept as <<hi, lo>> with two     *)
(* 16-bit halves.                                                          *)
(***************************************************************************)
EXTENDS Integers, Sequences, FiniteSets, TLC

\* ------------------------------------------------------------------------
\* The state
\* ------------------------------------------------------------------------

VARIABLES
  pc,                   \* where the program is: "setup", "wifi_poll",
                        \* "wifi_check", "boot_predict", "loop", "read",
                        \* "read_inner", "read_delay", "boot_end",
                        \* "interval", "iter_end"
  now,                  \* millis()
  wifiStatus,           \* WiFi.status()
  retryCount,           \* connectToWiFi's retryCount
  listening,            \* server.begin() has been called
  backlog,              \* connections waiting to be accepted, oldest first
  client,               \* the connection handleClient is serving
  request,              \* handleClient's request
  timeout,              \* handleClient's timeout
  predictedAQI,
  predictedHumidity,
  predictedTemperature,
  predictionAvailable,
  lastPredictionTime,   \* loop's static lastPredictionTime
  currentMillis,        \* loop's currentMillis
  nextConn,             \* the number the next connection gets
  accepts,              \* connections accepted in the current loop iteration
  events,               \* the accepts (with the number of connections left
                        \* waiting) and the closes, in order, from the
                        \* last accept but one on
  page,                 \* the handleClient call that has just returned
  lastCall,             \* the getPredictions call that has just returned
  lastGood,             \* the values of the last extraction that found all keys
  firstPage,            \* the first page served, where pages are compared
  cycles                \* the last two prediction cycles, where cycles are
                        \* timed

\* ------------------------------------------------------------------------
\* Arduino String operations used by getPredictions and handleClient
\* ------------------------------------------------------------------------

\* the characters of s from 0-based index a (inclusive) to b (exclusive)
Slice(s, a, b) == [i \in 1..(b - a) |-> s[a + i]]

\* does pat occur in s at 0-based index i
MatchAt(s, pat, i) ==
  /\ i >= 0
  /\ i + Len(pat) <= Len(s)
  /\ \A k \in 1..Len(pat) : s[i + k] = pat[k]

\* the least element of a set of indexes, or -1 when there is none
FirstOf(hits) ==
  IF hits = {} THEN -1 ELSE CHOOSE i \in hits : \A j \in hits : i <= j

\* String::indexOf(pat, from): the first 0-based index >= from, or -1
indexOf(s, pat, from) ==
  IF from >= Len(s) THEN -1
  ELSE FirstOf({i \in from..(Len(s) - Len(pat)) : MatchAt(s, pat, i)})

\* an int argument as the unsigned int of String::substring: -1 is UINT_MAX,
\* which is beyond every length
Unsigned(s, i) == IF i < 0 THEN Len(s) + 1 ELSE i

\* the tail of String::substring: left >= length gives "", right is clipped
\* to the length
Clip(s, left, right) ==
  IF left >= Len(s) THEN <<>>
  ELSE Slice(s, left, IF right > Len(s) THEN Len(s) ELSE right)

\* String::substring(left, right): the arguments are unsigned, and
\* left > right swaps them
substring(s, left, right) ==
  IF Unsigned(s, left) > Unsigned(s, right)
  THEN Clip(s, Unsigned(s, right), Unsigned(s, left))
  ELSE Clip(s, Unsigned(s, left), Unsigned(s, right))

\* String::substring(left): to the end of the string
substringFrom(s, left) == substring(s, left, Len(s))

\* String::endsWith(suffix)
endsWith(s, suffix) ==
  /\ Len(s) >= Len(suffix)
  /\ MatchAt(s, suffix, Len(s) - Len(suffix))

IsSpace(c) == c \in {" ", "\t", "\n", "\r"}

\* the part of s between the first and the last of the positions in keep
Between(s, keep) ==
  IF keep = {} THEN <<>>
  ELSE Slice(s, (CHOOSE i \in keep : \A j \in keep : i <= j) - 1,
             CHOOSE i \in keep : \A j \in keep : i >= j)

\* String::trim(): strips leading and trailing white space
trim(s) == Between(s, {i \in 1..Len(s) : ~IsSpace(s[i])})

Digits == <<"0", "1", "2", "3", "4", "5", "6", "7", "8", "9">>

IsDigit(c) == \E d \in 1..10 : Digits[d] = c

DigitVal(c) == (CHOOSE d \in 1..10 : Digits[d] = c) - 1

\* the length of the longest prefix of s (from 1-based position p) made of digits
RECURSIVE DigitRun(_, _)
DigitRun(s, p) ==
  IF p <= Len(s) /\ IsDigit(s[p]) THEN 1 + DigitRun(s, p + 1) ELSE 0

\* the decimal value of the digits s[p..p+n-1]
RECURSIVE DigitsValue(_, _, _)
DigitsValue(s, p, n) ==
  IF n = 0 THEN 0 ELSE DigitsValue(s, p, n - 1) * 10 + DigitVal(s[p + n - 1])

\* the first two fraction digits of t as hundredths, for a fraction of nf
\* digits that starts at 1-based position p
FractionValue(t, p, nf) ==
  (IF nf >= 1 THEN DigitVal(t[p]) * 10 ELSE 0)
    + (IF nf >= 2 THEN DigitVal(t[p + 1]) ELSE 0)

\* the value of ni digits from position p followed by a fraction of nf digits
Magnitude(t, p, ni, nf) ==
  IF ni + nf = 0 THEN 0
  ELSE DigitsValue(t, p, ni) * 100 + FractionValue(t, p + ni + 1, nf)

\* the number that starts at position p of t with ni digits
AfterDigits(t, p, ni) ==
  IF p + ni <= Len(t) /\ t[p + ni] = "."
  THEN Magnitude(t, p, ni, DigitRun(t, p + ni + 1))
  ELSE Magnitude(t, p, ni, 0)

\* the unsigned number that starts at position p of t
UnsignedAt(t, p) == AfterDigits(t, p, DigitRun(t, p))

\* atof() on a string without leading white space
Atof(t) ==
  IF Len(t) >= 1 /\ t[1] = "-" THEN 0 - UnsignedAt(t, 2)
  ELSE IF Len(t) >= 1 /\ t[1] = "+" THEN UnsignedAt(t, 2)
  ELSE UnsignedAt(t, 1)

\* String::toFloat() is atof(): skips white space, reads an optional sign, the
\* longest run of digits with an optional fraction, and stops at the first
\* character that does not fit; with no digits at all the result is 0.
\* The value is in hundredths; the inputs carry at most two fraction digits.
toFloat(s) == Atof(trim(s))

\* ------------------------------------------------------------------------
\* Response bodies of the prediction endpoint
\* ------------------------------------------------------------------------

\* the literals getPredictions searches for
Marker ==
  <<"\"", "n", "e", "x", "t", "_", "d", "a", "y", "_", "p", "r", "e", "d",
     "i", "c", "t", "i", "o", "n", "s", "\"", ":">>

KeyAqi == <<"\"", "a", "q", "i", "\"", ":">>

KeyHumidity ==
  <<"\"", "h", "u", "m", "i", "d", "i", "t", "y", "\"", ":">>

KeyTemperature ==
  <<"\"", "t", "e", "m", "p", "e", "r", "a", "t", "u", "r", "e", "\"", ":">>

Keys == {"aqi", "humidity", "temperature"}

KeyText(k) ==
  CASE k = "aqi" -> KeyAqi
    [] k = "humidity" -> KeyHumidity
    [] k = "temperature" -> KeyTemperature

\* the key a body carries in place of the marker when the marker is absent
OtherKey == <<"\"", "f", "o", "r", "e", "c", "a", "s", "t", "\"", ":">>

\* value texts: 1 is the documented example, 2 has white space, an integer,
\* one fraction digit and a negative number, 3 has texts that are no numbers
ValueSets == {1, 2, 3}

ValText(vs, k) ==
  CASE vs = 1 /\ k = "aqi" -> <<"1", "0", "4", ".", "1", "8">>
    [] vs = 1 /\ k = "humidity" -> <<"7", "3", ".", "2", "1">>
    [] vs = 1 /\ k = "temperature" -> <<"3", "1", ".", "7", "1">>
    [] vs = 2 /\ k = "aqi" -> <<" ", "6", "1", "2">>
    [] vs = 2 /\ k = "humidity" -> <<"4", "0", ".", "5">>
    [] vs = 2 /\ k = "temperature" -> <<"-", "5", ".", "5">>
    [] vs = 3 /\ k = "aqi" -> <<"n", "u", "l", "l">>
    [] vs = 3 /\ k = "humidity" -> <<"7", "3", ".", "2", "1">>
    [] vs = 3 /\ k = "temperature" -> <<"\"", "3", "1", "\"">>

\* is the value text a JSON number
ValIsNumber(vs, k) == ~(vs = 3 /\ k \in {"aqi", "temperature"})

\* the number that a value text which is a JSON number denotes, in hundredths
ValNumber(vs, k) ==
  CASE vs = 1 /\ k = "aqi" -> 10418
    [] vs = 1 /\ k = "humidity" -> 7321
    [] vs = 1 /\ k = "temperature" -> 3171
    [] vs = 2 /\ k = "aqi" -> 61200
    [] vs = 2 /\ k = "humidity" -> 4050
    [] vs = 2 /\ k = "temperature" -> 0 - 550
    [] vs = 3 /\ k = "humidity" -> 7321
    [] OTHER -> 0

\* text in front of the marker: nothing, or an aqi member of the outer object
PreText(p) ==
  IF p = 0 THEN <<>>
  ELSE <<"\"", "a", "q", "i", "\"", ":", "5", "5", ".", "5", ",">>

\* text after the predictions object: nothing, a status member, or the three
\* keys as members of the outer object
PostText(p) ==
  CASE p = 0 -> <<>>
    [] p = 1 -> <<",", "\"", "s", "t", "a", "t", "u", "s", "\"", ":", "\"", "o", "k",
     "\"">>
    [] p = 2 -> <<",", "\"", "a", "q", "i", "\"", ":", "7", ",", "\"", "h", "u", "m",
     "i", "d", "i", "t", "y", "\"", ":", "8", ",", "\"", "t", "e", "m", "p",
     "e", "r", "a", "t", "u", "r", "e", "\"", ":", "9">>

\* the orders in which a predictions object lists some of the three keys
InnerOrders ==
  {o \in UNION {[1..n -> Keys] : n \in 0..3} :
     \A i, j \in DOMAIN o : i # j => o[i] # o[j]}

Canonical == <<"aqi", "humidity", "temperature">>

\* A response body is described by what stands in front of the marker (pre),
\* whether the marker is there, the keys of the predictions object in order
\* (inner), the value texts (vals) and what follows the object (post).
\* The bodies tried: every predictions object on its own with every value
\* set, and the documented values with a missing marker, with an aqi member
\* in front of the marker, and with members after the predictions object.
Descriptors ==
  {d \in [pre : {0, 1}, marker : BOOLEAN, inner : InnerOrders,
          vals : ValueSets, post : {0, 1, 2}] :
     \/ d.pre = 0 /\ d.marker /\ d.post = 0
     \/ /\ d.vals = 1
        /\ \/ /\ ~d.marker /\ d.pre = 0 /\ d.post = 0
              /\ d.inner \in {Canonical, <<"humidity", "temperature">>}
           \/ /\ d.marker /\ d.pre = 1 /\ d.post = 0
              /\ d.inner \in {Canonical, <<"humidity", "temperature">>}
           \/ /\ d.marker /\ d.pre = 0 /\ d.post # 0
              /\ d.inner \in {<<>>, <<"humidity", "temperature">>, Canonical,
                              <<"temperature", "humidity", "aqi">>}}

\* the members of the predictions object, separated by commas
RECURSIVE Members(_, _)
Members(o, vs) ==
  IF o = <<>> THEN <<>>
  ELSE KeyText(o[1]) \o ValText(vs, o[1])
         \o (IF Len(o) > 1 THEN <<",">> ELSE <<>>) \o Members(Tail(o), vs)

\* the text of the body a descriptor stands for
Body(d) ==
  <<"{">> \o PreText(d.pre) \o (IF d.marker THEN Marker ELSE OtherKey)
    \o <<"{">> \o Members(d.inner, d.vals) \o <<"}">> \o PostText(d.post)
    \o <<"}">>

\* ------------------------------------------------------------------------
\* getPredictions: the extraction of the three fields from a response
\* ------------------------------------------------------------------------

\* the keys are looked for in the whole response
predSectionOf_whole(response, predStart) == response

\* predSection: the response from the marker on (line 573)
predSectionOf(response, predStart) == substringFrom(response, predStart)

\* one key found is taken to be enough
FieldsFound_any(aqiIndex, humidityIndex, temperatureIndex) ==
  aqiIndex # -1 \/ humidityIndex # -1 \/ temperatureIndex # -1

\* the condition under which the three values are extracted (line 580)
FieldsFound(aqiIndex, humidityIndex, temperatureIndex) ==
  aqiIndex # -1 /\ humidityIndex # -1 /\ temperatureIndex # -1

\* aqiStr: from the end of the key to the next comma, else the next brace
aqiStrOf(predSection, aqiIndex) ==
  LET aqiStart == aqiIndex + 6
      aqiEnd0  == indexOf(predSection, <<",">>, aqiStart)
      aqiEnd   == IF aqiEnd0 = -1 THEN indexOf(predSection, <<"}">>, aqiStart)
                  ELSE aqiEnd0
  IN trim(substring(predSection, aqiStart, aqiEnd))

\* the length of the humidity key is taken one too short
humStrOf_short(predSection, humidityIndex) ==
  trim(substring(predSection, humidityIndex + 10,
                 indexOf(predSection, <<"}">>, humidityIndex + 10)))

\* humStr: from the end of the key to the next comma, else the next brace
humStrOf(predSection, humidityIndex) ==
  LET humStart == humidityIndex + 11
      humEnd0  == indexOf(predSection, <<",">>, humStart)
      humEnd   == IF humEnd0 = -1 THEN indexOf(predSection, <<"}">>, humStart)
                  ELSE humEnd0
  IN trim(substring(predSection, humStart, humEnd))

\* tempStr: from the end of the key to the next brace, else the next comma
tempStrOf(predSection, temperatureIndex) ==
  LET tempStart == temperatureIndex + 14
      tempEnd0  == indexOf(predSection, <<"}">>, tempStart)
      tempEnd   == IF tempEnd0 = -1 THEN indexOf(predSection, <<",">>, tempStart)
                   ELSE tempEnd0
  IN trim(substring(predSection, tempStart, tempEnd))

AllFields == {"predictedAQI", "predictedHumidity", "predictedTemperature",
              "predictionAvailable"}

\* the outcome of a response that assigns nothing
NoCommit ==
  [assigns |-> {}, aqi |-> 0, humidity |-> 0, temperature |-> 0,
   aqiStr |-> <<>>, humStr |-> <<>>, tempStr |-> <<>>]

\* the assignments of lines 582-605 for the three extracted strings
commitOf(aqiStr, humStr, tempStr) ==
  [assigns |-> AllFields,
   aqi |-> toFloat(aqiStr),
   humidity |-> toFloat(humStr),
   temperature |-> toFloat(tempStr),
   aqiStr |-> aqiStr, humStr |-> humStr, tempStr |-> tempStr]

\* the humidity is stored as soon as its key is found
extractValues_partial(predSection, aqiIndex, humidityIndex, temperatureIndex) ==
  IF FieldsFound(aqiIndex, humidityIndex, temperatureIndex)
  THEN commitOf(aqiStrOf(predSection, aqiIndex),
                humStrOf(predSection, humidityIndex),
                tempStrOf(predSection, temperatureIndex))
  ELSE IF humidityIndex # -1
  THEN [NoCommit EXCEPT !.assigns = {"predictedHumidity"},
                        !.humidity =
                           toFloat(humStrOf(predSection, humidityIndex))]
  ELSE NoCommit

\* lines 580-618: the values are extracted when all three keys were found
extractValues(predSection, aqiIndex, humidityIndex, temperatureIndex) ==
  IF FieldsFound(aqiIndex, humidityIndex, temperatureIndex)
  THEN commitOf(aqiStrOf(predSection, aqiIndex),
                humStrOf(predSection, humidityIndex),
                tempStrOf(predSection, temperatureIndex))
  ELSE NoCommit

\* lines 576-578: the keys are looked for in predSection
extractFields(predSection) ==
  extractValues(predSection, indexOf(predSection, KeyAqi, 0),
                indexOf(predSection, KeyHumidity, 0),
                indexOf(predSection, KeyTemperature, 0))

\* lines 571-620: nothing is done without the marker
parseSection(response, predStart) ==
  IF predStart = -1 THEN NoCommit
  ELSE extractFields(predSectionOf(response, predStart))

\* What the body of a response with a positive status code does to the four
\* globals (lines 570-620): the set of globals assigned and their new values.
parseResponse(response) == parseSection(response, indexOf(response, Marker, 0))

\* the text of every body tried, computed once
BodyText == [d \in Descriptors |-> Body(d)]

\* parseResponse on every body tried, computed once
ParseTable == [d \in Descriptors |-> parseResponse(BodyText[d])]

\* ------------------------------------------------------------------------
\* Sensors, the classifier and printf
\* ------------------------------------------------------------------------

\* the not-a-number a failed DHT read returns (no reading has this value)
NaN == 0 - 999999

isnan(x) == x = NaN

\* readings of dht.readTemperature() and dht.readHumidity(), in hundredths
TempReadings == {NaN, 2537}

HumReadings == {NaN, 6010}

\* readings of analogRead(MQ135PIN): one for every label, at the thresholds
GasReadings == {149, 150, 300, 599, 600}

\* the first threshold belongs to the better label
interpretAirQuality_le(x) ==
  IF x <= 15000 THEN "Excellent"
  ELSE IF x < 30000 THEN "Good"
  ELSE IF x < 45000 THEN "Fair"
  ELSE IF x < 60000 THEN "Poor"
  ELSE "Very Poor"

\* interpretAirQuality(float raw); x is in hundredths
interpretAirQuality(x) ==
  IF x < 15000 THEN "Excellent"
  ELSE IF x < 30000 THEN "Good"
  ELSE IF x < 45000 THEN "Fair"
  ELSE IF x < 60000 THEN "Poor"
  ELSE "Very Poor"

\* the float an int converts to when passed to interpretAirQuality
IntToFloat(n) == n * 100

Abs(x) == IF x < 0 THEN 0 - x ELSE x

SignText(x) == IF x < 0 THEN "-" ELSE ""

\* printf("%.1f"): x (hundredths) rounded to one fraction digit
Fmt1(x) ==
  LET q == (Abs(x) + 5) \div 10
  IN SignText(x) \o ToString(q \div 10) \o "." \o ToString(q % 10)

\* printf("%.2f"): x (hundredths) with two fraction digits
Fmt2(x) ==
  LET a == Abs(x)
  IN SignText(x) \o ToString(a \div 100) \o "." \o ToString((a \div 10) % 10)
       \o ToString(a % 10)

\* mq135Raw * (3.3 / 4095.0), in hundredths of a volt (line 76)
mq135VoltageOf(mq135Raw) == (mq135Raw * 660 + 4095) \div 8190

\* ------------------------------------------------------------------------
\* millis(): unsigned 32-bit arithmetic on <<hi, lo>>
\* ------------------------------------------------------------------------

Half == 65536

U32(n) == <<(n \div Half) % Half, n % Half>>

\* a + n modulo 2^32, for 0 <= n < 2^30
U32Add(a, n) ==
  LET lo == a[2] + n
  IN <<(a[1] + lo \div Half) % Half, lo % Half>>

\* a - b modulo 2^32
U32Sub(a, b) ==
  LET lo == a[2] - b[2]
      borrow == IF lo < 0 THEN 1 ELSE 0
  IN <<(a[1] - b[1] - borrow) % Half, lo % Half>>

\* the value of a, for a < 2^31
U32ToInt(a) == a[1] * Half + a[2]

U32Lt(a, b) == a[1] < b[1] \/ (a[1] = b[1] /\ a[2] < b[2])

U32Ge(a, b) == ~U32Lt(a, b)

\* ------------------------------------------------------------------------
\* Program constants and the bounds of the model
\* ------------------------------------------------------------------------

API_INTERVAL == 60000

\* the read phase of handleClient gives up 2000 ms after the accept
ReadTimeout == 2000

\* connectToWiFi polls the link at most this many times, 1000 ms apart
MaxRetry == 20

PollDelay == 1000

\* setup waits this long for the sensors to stabilise
SetupDelay == 2000

\* connections that arrive in one run
MaxConns == 2

\* idle loop iterations do not advance the clock beyond this uptime (ms) in
\* the runs with clients
MaxMillis == 65000

\* idle loop iterations do not advance the clock beyond this uptime (ms) in
\* the runs without clients
MaxIdleMillis == 130000

\* idle loop iterations are passed over up to the next multiple of this (ms)
LoopStep == 20000

\* the time one POST and its response take
PostDelay == 700

\* the time the read loop of handleClient spends on iterations that find no
\* byte before the next one that is modelled
ReadWait == 1000

\* the characters of request that are kept when it is read byte by byte: the
\* last RequestKept ones (endsWith looks at the last four)
RequestKept == 6

\* ------------------------------------------------------------------------
\* The inputs of the environment
\* ------------------------------------------------------------------------

Terminator == <<"\r", "\n", "\r", "\n">>

RequestLine == <<"G", "\r", "\n">>

\* what a client sends, in chunks: a whole request at once, a request whose
\* terminator comes later, and a request that is never terminated
Scripts ==
  {<<RequestLine \o <<"\r", "\n">>>>,
   <<RequestLine, <<"\r", "\n">>>>,
   <<<<"G">>>>}

\* the sensor readings of one handleClient call: every gas reading, and
\* every failure of the DHT
SensorSamples ==
  {r \in [temperature : TempReadings, humidity : HumReadings,
          mq135Raw : GasReadings] :
     /\ r.mq135Raw \in {149, 150} => ~isnan(r.temperature) /\ ~isnan(r.humidity)
     /\ r.mq135Raw = 300 => isnan(r.temperature) /\ ~isnan(r.humidity)
     /\ r.mq135Raw = 599 => ~isnan(r.temperature) /\ isnan(r.humidity)
     /\ r.mq135Raw = 600 => isnan(r.temperature) /\ isnan(r.humidity)}

DocumentedBody ==
  [pre |-> 0, marker |-> TRUE, inner |-> Canonical, vals |-> 1, post |-> 0]

\* the body of a response with the keys in the documented order
CanonicalBody(vs, p) ==
  [pre |-> 0, marker |-> TRUE, inner |-> Canonical, vals |-> vs, post |-> p]

\* the inputs of one getPredictions call: the sensor readings, the status code
\* of the POST and the body of the response.  Readings that are not valid and
\* status codes that are not positive are tried with the documented body.
Scenarios ==
  {i \in [temperature : TempReadings, humidity : HumReadings, mq135Raw : {412},
          httpResponseCode : {0 - 1, 0, 200}, body : Descriptors] :
     /\ (isnan(i.temperature) \/ isnan(i.humidity)) => i.httpResponseCode = 200
     /\ (isnan(i.temperature) \/ isnan(i.humidity) \/ i.httpResponseCode <= 0)
          => i.body = DocumentedBody}

\* the inputs of the prediction cycles of the runs with clients: a failed
\* sensor read, a failed POST, the documented body with two sets of values,
\* and a body without the aqi key
ServedScenarios ==
  {i \in Scenarios :
     /\ ~isnan(i.humidity)
     /\ i.httpResponseCode # 0
     /\ i.body \in {CanonicalBody(1, 0), CanonicalBody(2, 0),
                    [CanonicalBody(1, 0) EXCEPT
                       !.inner = <<"humidity", "temperature">>]}}

\* ------------------------------------------------------------------------
\* getPredictions and handleClient as functions of their inputs
\* ------------------------------------------------------------------------

\* the link is not checked
LinkDown_unchecked(status) == FALSE

\* the link check at the top of getPredictions (line 531)
LinkDown(status) == status # "WL_CONNECTED"

\* the request is given up only when both readings failed
SensorFailed_both(temperature, humidity) ==
  isnan(temperature) /\ isnan(humidity)

\* the sensor check of getPredictions (line 545)
SensorFailed(temperature, humidity) == isnan(temperature) \/ isnan(humidity)

\* the JSON payload of the POST (lines 552-555)
jsonBufferOf(temperature, humidity, mq135Raw) ==
  "{\"temperature\": " \o Fmt2(temperature) \o ", \"humidity\": "
    \o Fmt2(humidity) \o ", \"aqi\": " \o ToString(mq135Raw) \o "}"

\* the body is parsed whatever the status code
getPredictionsOutcome_anyCode(status, in) ==
  IF LinkDown(status)
  THEN [posted |-> FALSE, payload |-> "", effect |-> NoCommit]
  ELSE IF SensorFailed(in.temperature, in.humidity)
  THEN [posted |-> FALSE, payload |-> "", effect |-> NoCommit]
  ELSE [posted |-> TRUE,
        payload |-> jsonBufferOf(in.temperature, in.humidity, in.mq135Raw),
        effect |-> ParseTable[in.body]]

\* One getPredictions call: whether a POST is issued, its payload, and what
\* the call assigns to the four globals.
getPredictionsOutcome(status, in) ==
  IF LinkDown(status)
  THEN [posted |-> FALSE, payload |-> "", effect |-> NoCommit]
  ELSE IF SensorFailed(in.temperature, in.humidity)
  THEN [posted |-> FALSE, payload |-> "", effect |-> NoCommit]
  ELSE [posted |-> TRUE,
        payload |-> jsonBufferOf(in.temperature, in.humidity, in.mq135Raw),
        effect |-> IF in.httpResponseCode > 0 THEN ParseTable[in.body]
                   ELSE NoCommit]

\* the readings are displayed as read
displayedReadings_raw(temperature, humidity) ==
  [temperature |-> temperature, humidity |-> humidity]

\* the values handleClient displays for a DHT read (lines 79-83)
displayedReadings(temperature, humidity) ==
  IF isnan(humidity) \/ isnan(temperature)
  THEN [temperature |-> 0, humidity |-> 0]
  ELSE [temperature |-> temperature, humidity |-> humidity]

StatusLine == "HTTP/1.1 200 OK"

ContentType == "Content-Type: text/html; charset=UTF-8"

ConnectionClose == "Connection: close"

\* the predictions section of the page (lines 420-467)
predictionSection(pred) ==
  IF pred.predictionAvailable
  THEN <<"<html: predicted temperature card>",
         Fmt2(pred.predictedTemperature) \o " &deg;C",
         "<html: predicted humidity card>",
         Fmt2(pred.predictedHumidity) \o " %",
         "<html: predicted air quality card>",
         Fmt2(pred.predictedAQI),
         "<html: interpretation>",
         interpretAirQuality(pred.predictedAQI),
         "<html: end of card>">>
  ELSE <<"<html: Predictions Loading...>">>

\* the last write of handleClient: the end of the grid, the footer, the script
Footer == "<html: footer, script, end of document>"

\* a request without the terminator is answered with an error
responseWrites_byRequest(temperature, humidity, mq135Raw, pred) ==
  IF endsWith(request, Terminator)
  THEN <<StatusLine, ContentType, ConnectionClose, "",
         "<html: head, style, header, temperature card>",
         Fmt1(displayedReadings(temperature, humidity).temperature)
           \o " &deg;C",
         "<html: humidity card>",
         Fmt1(displayedReadings(temperature, humidity).humidity) \o " %",
         "<html: air quality card>",
         ToString(mq135Raw) \o "<br>" \o Fmt2(mq135VoltageOf(mq135Raw))
           \o " V",
         "<html: interpretation>",
         interpretAirQuality(IntToFloat(mq135Raw)),
         "<html: predictions grid>">>
         \o predictionSection(pred) \o <<Footer>>
  ELSE <<"HTTP/1.1 400 Bad Request", ConnectionClose, "", Footer>>

\* everything handleClient writes to the client, in order (lines 88-522)
responseWrites(temperature, humidity, mq135Raw, pred) ==
  LET shown == displayedReadings(temperature, humidity)
  IN <<StatusLine, ContentType, ConnectionClose, "",
       "<html: head, style, header, temperature card>",
       Fmt1(shown.temperature) \o " &deg;C",
       "<html: humidity card>",
       Fmt1(shown.humidity) \o " %",
       "<html: air quality card>",
       ToString(mq135Raw) \o "<br>" \o Fmt2(mq135VoltageOf(mq135Raw)) \o " V",
       "<html: interpretation>",
       interpretAirQuality(IntToFloat(mq135Raw)),
       "<html: predictions grid>">>
       \o predictionSection(pred) \o <<Footer>>

\* client.stop() as it shows on the connection
Stop == "<stop>"

\* the connection is never closed
connectionTrace_open(writes) == writes

\* the connection is closed before the last write
connectionTrace_early(writes) ==
  Append(SubSeq(writes, 1, Len(writes) - 1), Stop)
    \o <<writes[Len(writes)]>>

\* what the connection sees of one handleClient call: the writes, then the
\* close (lines 88-525)
connectionTrace(writes) == Append(writes, Stop)

\* ------------------------------------------------------------------------
\* The state as a whole, and its initial value
\* ------------------------------------------------------------------------

vars ==
  <<pc, now, wifiStatus, retryCount, listening, backlog, client, request,
    timeout, predictedAQI, predictedHumidity, predictedTemperature,
    predictionAvailable, lastPredictionTime, currentMillis, nextConn, accepts,
    events, page, lastCall, lastGood, firstPage, cycles>>

\* what is recorded for the comparison of pages and the timing of cycles
watch == <<firstPage, cycles>>

predVars ==
  <<predictedAQI, predictedHumidity, predictedTemperature, predictionAvailable>>

PredictionState ==
  [predictedAQI |-> predictedAQI, predictedHumidity |-> predictedHumidity,
   predictedTemperature |-> predictedTemperature,
   predictionAvailable |-> predictionAvailable]

\* the globals as initialised (lines 21-24)
InitialPrediction ==
  [predictedAQI |-> 0, predictedHumidity |-> 0, predictedTemperature |-> 0,
   predictionAvailable |-> FALSE]

NoClient == [id |-> 0, avail |-> <<>>, script |-> <<>>, open |-> FALSE]

NoPage ==
  [conn |-> 0, temperature |-> 0, humidity |-> 0, mq135Raw |-> 0,
   pred |-> InitialPrediction, request |-> <<>>, terminated |-> FALSE,
   trace |-> <<>>]

\* no cycle
NoCycle == [by |-> "none", at |-> U32(0), failed |-> FALSE]

NoCall ==
  [called |-> FALSE, status |-> "", in |-> CHOOSE i \in Scenarios : TRUE,
   pre |-> InitialPrediction, posted |-> FALSE, payload |-> ""]

Init ==
  /\ pc = "setup"
  /\ now = U32(0)
  /\ wifiStatus = "WL_DISCONNECTED"
  /\ retryCount = 0
  /\ listening = FALSE
  /\ backlog = <<>>
  /\ client = NoClient
  /\ request = <<>>
  /\ timeout = U32(0)
  /\ predictedAQI = InitialPrediction.predictedAQI
  /\ predictedHumidity = InitialPrediction.predictedHumidity
  /\ predictedTemperature = InitialPrediction.predictedTemperature
  /\ predictionAvailable = InitialPrediction.predictionAvailable
  /\ lastPredictionTime = U32(0)
  /\ currentMillis = U32(0)
  /\ nextConn = 1
  /\ accepts = 0
  /\ events = <<>>
  /\ page = NoPage
  /\ lastCall = NoCall
  /\ lastGood = <<0, 0, 0>>
  /\ firstPage = NoPage
  /\ cycles = <<NoCycle, NoCycle>>

\* ------------------------------------------------------------------------
\* setup and connectToWiFi
\* ------------------------------------------------------------------------

\* setup up to the call of connectToWiFi, and connectToWiFi up to its loop
Setup ==
  /\ pc = "setup"
  /\ now' = U32Add(now, SetupDelay)
  /\ retryCount' = 0
  /\ pc' = "wifi_poll"
  /\ UNCHANGED <<wifiStatus, listening, backlog, client, request, timeout,
                 predVars, lastPredictionTime, currentMillis, nextConn,
                 accepts, events, page, lastCall, lastGood,
                 watch>>

\* one round more is allowed
KeepPolling_more == wifiStatus # "WL_CONNECTED" /\ retryCount <= MaxRetry

\* the condition of the polling loop (line 31)
KeepPolling == wifiStatus # "WL_CONNECTED" /\ retryCount < MaxRetry

\* one round of the polling loop
WifiPoll ==
  /\ pc = "wifi_poll"
  /\ KeepPolling
  /\ now' = U32Add(now, PollDelay)
  /\ retryCount' = retryCount + 1
  /\ UNCHANGED <<pc, wifiStatus, listening, backlog, client, request, timeout,
                 predVars, lastPredictionTime, currentMillis, nextConn,
                 accepts, events, page, lastCall, lastGood,
                 watch>>

\* the polling loop ends
WifiExit ==
  /\ pc = "wifi_poll"
  /\ ~KeepPolling
  /\ pc' = "wifi_check"
  /\ UNCHANGED <<now, wifiStatus, retryCount, listening, backlog, client,
                 request, timeout, predVars, lastPredictionTime,
                 currentMillis, nextConn, accepts, events, page, lastCall,
                 lastGood,
                 watch>>

\* the status check after the loop: server.begin() when connected
WifiCheck ==
  /\ pc = "wifi_check"
  /\ listening' = (wifiStatus = "WL_CONNECTED")
  /\ retryCount' = 0
  /\ pc' = "boot_predict"
  /\ UNCHANGED <<now, wifiStatus, backlog, client, request,
                 timeout, predVars, lastPredictionTime, currentMillis,
                 nextConn, accepts, events, page, lastCall, lastGood,
                 watch>>

\* ------------------------------------------------------------------------
\* getPredictions
\* ------------------------------------------------------------------------

\* a call that stores nothing marks the prediction as not available
applyOutcome_resets(in, o) ==
  /\ predictedAQI' =
       IF "predictedAQI" \in o.effect.assigns THEN o.effect.aqi
       ELSE predictedAQI
  /\ predictedHumidity' =
       IF "predictedHumidity" \in o.effect.assigns THEN o.effect.humidity
       ELSE predictedHumidity
  /\ predictedTemperature' =
       IF "predictedTemperature" \in o.effect.assigns
       THEN o.effect.temperature ELSE predictedTemperature
  /\ predictionAvailable' = ("predictionAvailable" \in o.effect.assigns)
  /\ lastCall' = [called |-> TRUE, status |-> wifiStatus, in |-> in,
                  pre |-> PredictionState, posted |-> o.posted,
                  payload |-> o.payload]
  /\ lastGood' = IF o.effect.assigns = AllFields
                 THEN <<o.effect.aqi, o.effect.humidity, o.effect.temperature>>
                 ELSE lastGood
  /\ now' = IF o.posted THEN U32Add(now, PostDelay) ELSE now

\* the effect of a getPredictions call with outcome o on the four globals,
\* the record of the call, and the time the POST takes
applyOutcome(in, o) ==
  /\ predictedAQI' =
       IF "predictedAQI" \in o.effect.assigns THEN o.effect.aqi
       ELSE predictedAQI
  /\ predictedHumidity' =
       IF "predictedHumidity" \in o.effect.assigns THEN o.effect.humidity
       ELSE predictedHumidity
  /\ predictedTemperature' =
       IF "predictedTemperature" \in o.effect.assigns
       THEN o.effect.temperature ELSE predictedTemperature
  /\ predictionAvailable' =
       IF "predictionAvailable" \in o.effect.assigns THEN TRUE
       ELSE predictionAvailable
  /\ lastCall' = [called |-> TRUE, status |-> wifiStatus, in |-> in,
                  pre |-> PredictionState, posted |-> o.posted,
                  payload |-> o.payload]
  /\ lastGood' = IF o.effect.assigns = AllFields
                 THEN <<o.effect.aqi, o.effect.humidity, o.effect.temperature>>
                 ELSE lastGood
  /\ now' = IF o.posted THEN U32Add(now, PostDelay) ELSE now

\* one call of getPredictions with the inputs in
getPredictions(in) == applyOutcome(in, getPredictionsOutcome(wifiStatus, in))

\* the unconditional call at the end of setup (line 645), with inputs from S
BootPredictOver(S) ==
  /\ pc = "boot_predict"
  /\ \E in \in S : getPredictions(in)
  /\ pc' = "boot_end"
  /\ UNCHANGED <<wifiStatus, retryCount, listening, backlog, client, request,
                 timeout, lastPredictionTime, currentMillis, nextConn,
                 accepts, events, page>>

\* ------------------------------------------------------------------------
\* loop and handleClient
\* ------------------------------------------------------------------------

\* the events from the last accept on
RECURSIVE SinceLastAccept(_)
SinceLastAccept(ev) ==
  IF ev = <<>> THEN <<>>
  ELSE IF Head(ev)[1] = "accept" /\ \A i \in 2..Len(ev) : ev[i][1] # "accept"
  THEN ev
  ELSE SinceLastAccept(Tail(ev))

\* the top of loop: millis() is read and server.available() is asked for a
\* connection; handleClient starts on the one it returns (lines 650-656, 55-59)
LoopStart ==
  /\ pc = "loop"
  /\ currentMillis' = now
  /\ IF listening /\ backlog # <<>>
     THEN /\ client' = Head(backlog)
          /\ backlog' = Tail(backlog)
          /\ request' = <<>>
          /\ timeout' = U32Add(now, ReadTimeout)
          /\ accepts' = accepts + 1
          /\ events' = Append(SinceLastAccept(events),
                               <<"accept", Head(backlog).id,
                                 Len(backlog) - 1>>)
          /\ pc' = "read"
     ELSE /\ pc' = "interval"
          /\ UNCHANGED <<client, backlog, request, timeout, accepts, events,
                 watch>>
  /\ UNCHANGED <<now, wifiStatus, retryCount, listening, predVars,
                 lastPredictionTime, nextConn, page, lastCall, lastGood,
                 watch>>

\* the inner loop of the read phase: bytes are taken while there are any, up
\* to the one that completes the terminator (lines 62-68)
RECURSIVE readAvailable(_, _)
readAvailable(req, avail) ==
  IF avail = <<>> THEN [request |-> req, avail |-> avail, found |-> FALSE]
  ELSE LET r == Append(req, Head(avail))
       IN IF endsWith(r, Terminator)
          THEN [request |-> r, avail |-> Tail(avail), found |-> TRUE]
          ELSE readAvailable(r, Tail(avail))

\* the condition of the outer loop of the read phase (line 61)
KeepReading == client.open /\ U32Lt(now, timeout)

\* one round of the outer loop of the read phase (lines 61-71)
ReadIter ==
  /\ pc = "read"
  /\ KeepReading
  /\ LET res == readAvailable(request, client.avail)
     IN /\ request' = res.request
        /\ client' = [client EXCEPT !.avail = res.avail]
        /\ timeout' = IF res.found THEN U32(0) ELSE timeout
  /\ now' = U32Add(now, IF client.avail # <<>> THEN 1 ELSE ReadWait)
  /\ UNCHANGED <<pc, wifiStatus, retryCount, listening, backlog, predVars,
                 lastPredictionTime, currentMillis, nextConn, accepts, events,
                 page, lastCall, lastGood,
                 watch>>

\* handleClient returns with the connection having seen trace
Served(temperature, humidity, mq135Raw, trace) ==
  /\ page' = [conn |-> client.id, temperature |-> temperature,
              humidity |-> humidity, mq135Raw |-> mq135Raw,
              pred |-> PredictionState, request |-> request,
              terminated |-> endsWith(request, Terminator),
              trace |-> trace]
  /\ events' = IF \E i \in DOMAIN trace : trace[i] = Stop
               THEN Append(events, <<"stop", client.id>>)
               ELSE events

\* the handler clears the predicted AQI when it has written the page
Reply_clears ==
  /\ pc = "read"
  /\ ~KeepReading
  /\ \E r \in SensorSamples :
       Served(r.temperature, r.humidity, r.mq135Raw,
              connectionTrace(responseWrites(r.temperature, r.humidity,
                                             r.mq135Raw, PredictionState)))
  /\ client' = NoClient
  /\ request' = <<>>
  /\ timeout' = U32(0)
  /\ now' = U32Add(now, 1)
  /\ pc' = "interval"
  /\ predictedAQI' = 0
  /\ UNCHANGED <<wifiStatus, retryCount, listening, backlog,
                 predictedHumidity, predictedTemperature, predictionAvailable,
                 lastPredictionTime, currentMillis, nextConn, accepts,
                 lastCall, lastGood>>

\* the rest of handleClient: the sensors are read, the response is written
\* and the connection is closed (lines 73-527)
Reply ==
  /\ pc = "read"
  /\ ~KeepReading
  /\ \E r \in SensorSamples :
       Served(r.temperature, r.humidity, r.mq135Raw,
              connectionTrace(responseWrites(r.temperature, r.humidity,
                                             r.mq135Raw, PredictionState)))
  /\ client' = NoClient
  /\ request' = <<>>
  /\ timeout' = U32(0)
  /\ now' = U32Add(now, 1)
  /\ pc' = "interval"
  /\ UNCHANGED <<wifiStatus, retryCount, listening, backlog, predVars,
                 lastPredictionTime, currentMillis, nextConn, accepts,
                 lastCall, lastGood>>

\* handleClient's response, with nothing recorded for comparison
Respond == Reply /\ UNCHANGED watch

\* did the getPredictions call fail to store a prediction
CallFailed(call) ==
  \/ ~call.posted
  \/ call.in.httpResponseCode <= 0
  \/ ParseTable[call.in.body].assigns # AllFields

\* the interval test of loop (line 659)
PredictionDue ==
  U32Ge(U32Sub(currentMillis, lastPredictionTime), U32(API_INTERVAL))

\* the time of the cycle is kept only when the cycle stored a prediction
IntervalCheckOver_retry(S) ==
  /\ pc = "interval"
  /\ IF PredictionDue
     THEN /\ \E in \in S : getPredictions(in)
          /\ lastPredictionTime' = IF CallFailed(lastCall')
                                   THEN lastPredictionTime ELSE currentMillis
     ELSE UNCHANGED <<predVars, lastCall, lastGood, now, lastPredictionTime>>
  /\ pc' = "iter_end"
  /\ page' = NoPage
  /\ UNCHANGED <<wifiStatus, retryCount, listening, backlog, client, request,
                 timeout, currentMillis, nextConn, accepts, events>>

\* the second half of loop (lines 659-662), with inputs from S
IntervalCheckOver(S) ==
  /\ pc = "interval"
  /\ IF PredictionDue
     THEN /\ \E in \in S : getPredictions(in)
          /\ lastPredictionTime' = currentMillis
     ELSE UNCHANGED <<predVars, lastCall, lastGood, now, lastPredictionTime>>
  /\ pc' = "iter_end"
  /\ page' = NoPage
  /\ UNCHANGED <<wifiStatus, retryCount, listening, backlog, client, request,
                 timeout, currentMillis, nextConn, accepts, events>>

\* setup or loop returns; what it did is no longer looked at
LoopReturn ==
  /\ pc \in {"boot_end", "iter_end"}
  /\ pc' = "loop"
  /\ accepts' = 0
  /\ lastCall' = NoCall
  /\ currentMillis' = U32(0)
  /\ UNCHANGED <<now, wifiStatus, retryCount, listening, backlog, client,
                 request, timeout, predVars, lastPredictionTime, nextConn,
                 events, page, lastGood,
                 watch>>

\* the time from t to the next multiple of LoopStep
ToNextStep(t) == LoopStep - (U32ToInt(t) % LoopStep)

\* iterations of loop that find no connection pass, up to the next multiple
\* of LoopStep, as long as that is not beyond limit
ElapseUpTo(limit) ==
  /\ pc = "loop"
  /\ ~(listening /\ backlog # <<>>)
  /\ U32Ge(U32(limit), U32Add(now, ToNextStep(now)))
  /\ now' = U32Add(now, ToNextStep(now))
  /\ UNCHANGED <<pc, wifiStatus, retryCount, listening, backlog, client,
                 request, timeout, predVars, lastPredictionTime,
                 currentMillis, nextConn, accepts, events, page, lastCall,
                 lastGood,
                 watch>>

\* ------------------------------------------------------------------------
\* The environment: the link and the clients
\* ------------------------------------------------------------------------

\* the points of the program at which the environment is seen to act
EnvPoint == pc \in {"wifi_poll", "wifi_check", "loop"}

\* the rounds of the polling loop in which the link is seen to change: before
\* the first, after a few, and when the retries are used up
LinkPolls == {0, 2, MaxRetry}

\* the link comes up or goes down
LinkChange ==
  /\ EnvPoint
  /\ pc = "wifi_poll" => retryCount \in LinkPolls
  /\ wifiStatus' = IF wifiStatus = "WL_CONNECTED" THEN "WL_DISCONNECTED"
                   ELSE "WL_CONNECTED"
  /\ UNCHANGED <<pc, now, retryCount, listening, backlog, client, request,
                 timeout, predVars, lastPredictionTime, currentMillis,
                 nextConn, accepts, events, page, lastCall, lastGood,
                 watch>>

\* the next chunk of a connection's script arrives
Deliver(c) == [c EXCEPT !.avail = c.avail \o Head(c.script),
                        !.script = Tail(c.script)]

\* a client connects to the listening socket; the first chunk of what it
\* sends arrives with it
Connect ==
  /\ pc \in {"loop", "read"}
  /\ listening
  /\ wifiStatus = "WL_CONNECTED"
  /\ nextConn <= MaxConns
  /\ \E sc \in Scripts :
       LET c == [id |-> nextConn, avail |-> <<>>, script |-> sc, open |-> TRUE]
       IN backlog' = Append(backlog, IF sc = <<>> THEN c ELSE Deliver(c))
  /\ nextConn' = nextConn + 1
  /\ UNCHANGED <<pc, now, wifiStatus, retryCount, listening, client, request,
                 timeout, predVars, lastPredictionTime, currentMillis,
                 accepts, events, page, lastCall, lastGood,
                 watch>>

\* the next chunk of the script arrives at the connection being served
ClientSend ==
  /\ pc = "read"
  /\ client.open
  /\ client.script # <<>>
  /\ client' = Deliver(client)
  /\ UNCHANGED <<pc, now, wifiStatus, retryCount, listening, backlog, request,
                 timeout, predVars, lastPredictionTime, currentMillis,
                 nextConn, accepts, events, page, lastCall, lastGood,
                 watch>>

\* the peer of the connection being served goes away while the read phase
\* waits for it; client.connected() stays true as long as bytes received
\* before are unread, so the close shows once they are taken
ClientClose ==
  /\ pc = "read"
  /\ KeepReading
  /\ client.avail = <<>>
  /\ client' = [client EXCEPT !.open = FALSE, !.script = <<>>]
  /\ UNCHANGED <<pc, now, wifiStatus, retryCount, listening, backlog, request,
                 timeout, predVars, lastPredictionTime, currentMillis,
                 nextConn, accepts, events, page, lastCall, lastGood,
                 watch>>

\* ------------------------------------------------------------------------
\* The specifications
\* ------------------------------------------------------------------------

\* The whole program with clients: the prediction cycles draw their inputs
\* from ServedScenarios.
BootPredict == BootPredictOver(ServedScenarios) /\ UNCHANGED watch

IntervalCheck == IntervalCheckOver(ServedScenarios) /\ UNCHANGED watch

Elapse == ElapseUpTo(MaxMillis)

Next ==
  \/ Setup
  \/ WifiPoll
  \/ WifiExit
  \/ WifiCheck
  \/ BootPredict
  \/ LoopStart
  \/ ReadIter
  \/ Respond
  \/ IntervalCheck
  \/ LoopReturn
  \/ Elapse
  \/ LinkChange
  \/ Connect
  \/ ClientSend
  \/ ClientClose

Spec == Init /\ [][Next]_vars

\* The runs in which the pages served are compared: the first page served is
\* kept, and no time passes between the iterations of loop, so that every
\* page is rendered from the prediction of the boot cycle.
RespondShown ==
  /\ Reply
  /\ firstPage' = IF firstPage.conn = 0 THEN page' ELSE firstPage
  /\ UNCHANGED cycles

NextRequest ==
  \/ Setup
  \/ WifiPoll
  \/ WifiExit
  \/ WifiCheck
  \/ BootPredict
  \/ LoopStart
  \/ ReadIter
  \/ RespondShown
  \/ IntervalCheck
  \/ LoopReturn
  \/ LinkChange
  \/ Connect
  \/ ClientSend
  \/ ClientClose

SpecRequest == Init /\ [][NextRequest]_vars

\* The runs in which the request is read byte by byte, so that bytes can
\* arrive while the inner loop of the read phase is running; no time passes
\* between the iterations of loop.  The program always takes its next step.

\* the last RequestKept characters of req
Kept(req) ==
  IF Len(req) > RequestKept
  THEN SubSeq(req, Len(req) - RequestKept + 1, Len(req))
  ELSE req

\* a round of the outer loop that finds no byte (lines 61, 62, 70)
ReadIdle == client.avail = <<>> /\ ReadIter

\* the outer loop goes on and the inner loop finds a byte (lines 61-62)
ReadEnter ==
  /\ pc = "read"
  /\ KeepReading
  /\ client.avail # <<>>
  /\ pc' = "read_inner"
  /\ UNCHANGED <<now, wifiStatus, retryCount, listening, backlog, client,
                 request, timeout, predVars, lastPredictionTime,
                 currentMillis, nextConn, accepts, events, page, lastCall,
                 lastGood, watch>>

\* one round of the inner loop: a byte is taken, and the loop is left when it
\* completes the terminator (lines 62-68)
ReadByte ==
  /\ pc = "read_inner"
  /\ client.avail # <<>>
  /\ request' = Kept(Append(request, Head(client.avail)))
  /\ client' = [client EXCEPT !.avail = Tail(client.avail)]
  /\ IF endsWith(request', Terminator)
     THEN timeout' = U32(0) /\ pc' = "read_delay"
     ELSE timeout' = timeout /\ pc' = "read_inner"
  /\ UNCHANGED <<now, wifiStatus, retryCount, listening, backlog, predVars,
                 lastPredictionTime, currentMillis, nextConn, accepts, events,
                 page, lastCall, lastGood, watch>>

\* the inner loop is over, by the break or because client.available() is 0:
\* delay(1), and back to the test of the outer loop (lines 62, 67, 70)
ReadLeave ==
  /\ \/ pc = "read_delay"
     \/ pc = "read_inner" /\ client.avail = <<>>
  /\ now' = U32Add(now, 1)
  /\ pc' = "read"
  /\ UNCHANGED <<wifiStatus, retryCount, listening, backlog, client, request,
                 timeout, predVars, lastPredictionTime, currentMillis,
                 nextConn, accepts, events, page, lastCall, lastGood, watch>>

\* the client that sends no terminator keeps sending: a further byte of it
\* arrives while the inner loop has one byte left to take
ClientStreams ==
  /\ pc = "read_inner"
  /\ client.open
  /\ client.script = <<>>
  /\ client.avail = <<"G">>
  /\ client' = [client EXCEPT !.avail = Append(client.avail, "G")]
  /\ UNCHANGED <<pc, now, wifiStatus, retryCount, listening, backlog, request,
                 timeout, predVars, lastPredictionTime, currentMillis,
                 nextConn, accepts, events, page, lastCall, lastGood, watch>>

\* the steps of the program
Program ==
  \/ Setup
  \/ WifiPoll
  \/ WifiExit
  \/ WifiCheck
  \/ BootPredict
  \/ LoopStart
  \/ ReadIdle
  \/ ReadEnter
  \/ ReadByte
  \/ ReadLeave
  \/ Respond
  \/ IntervalCheck
  \/ LoopReturn

NextLive ==
  \/ Setup
  \/ WifiPoll
  \/ WifiExit
  \/ WifiCheck
  \/ BootPredict
  \/ LoopStart
  \/ ReadIdle
  \/ ReadEnter
  \/ ReadByte
  \/ ReadLeave
  \/ Respond
  \/ IntervalCheck
  \/ LoopReturn
  \/ LinkChange
  \/ Connect
  \/ ClientSend
  \/ ClientClose
  \/ ClientStreams

SpecLive == Init /\ [][NextLive]_vars /\ WF_vars(Program)

\* The runs of the program in which no client connects: the prediction cycles
\* draw their inputs from all of Scenarios.
\* the cycle that starts now is recorded, if the step runs one
CycleRecorded(by) ==
  /\ cycles' = IF lastCall'.called
                THEN <<cycles[2], [by |-> by, at |-> now,
                                   failed |-> CallFailed(lastCall')]>>
                ELSE cycles
  /\ UNCHANGED firstPage

BootPredictAny == BootPredictOver(Scenarios) /\ CycleRecorded("setup")

IntervalCheckAny == IntervalCheckOver(Scenarios) /\ CycleRecorded("loop")

ElapseLong == ElapseUpTo(MaxIdleMillis)

NextPredict ==
  \/ Setup
  \/ WifiPoll
  \/ WifiExit
  \/ WifiCheck
  \/ BootPredictAny
  \/ LoopStart
  \/ IntervalCheckAny
  \/ LoopReturn
  \/ ElapseLong
  \/ LinkChange

SpecPredict == Init /\ [][NextPredict]_vars

\* the steps of setup up to the end of connectToWiFi
ConnectSteps ==
  \/ Setup
  \/ WifiPoll
  \/ WifiExit
  \/ WifiCheck

\* The same runs, in which setup and connectToWiFi always take their next
\* step.
SpecConnect == SpecPredict /\ WF_vars(ConnectSteps)

\* The whole program with clients, in which the pages are followed from the
\* first one that showed predicted values: the connection of that page is
\* kept, and so are the prediction cycles that loop runs after it.
ShowsPredicted(trace) ==
  \E i \in DOMAIN trace : trace[i] = "<html: predicted temperature card>"

ShowsPlaceholder(trace) ==
  \E i \in DOMAIN trace : trace[i] = "<html: Predictions Loading...>"

RespondPredicted ==
  /\ Reply
  /\ firstPage' = IF firstPage.conn = 0 /\ ShowsPredicted(page'.trace)
                  THEN [NoPage EXCEPT !.conn = page'.conn] ELSE firstPage
  /\ UNCHANGED cycles

IntervalCheckAfterPage ==
  /\ IntervalCheckOver(ServedScenarios)
  /\ IF firstPage.conn # 0 THEN CycleRecorded("loop") ELSE UNCHANGED watch

NextPages ==
  \/ Setup
  \/ WifiPoll
  \/ WifiExit
  \/ WifiCheck
  \/ BootPredict
  \/ LoopStart
  \/ ReadIter
  \/ RespondPredicted
  \/ IntervalCheckAfterPage
  \/ LoopReturn
  \/ Elapse
  \/ LinkChange
  \/ Connect
  \/ ClientSend
  \/ ClientClose

SpecPages == Init /\ [][NextPages]_vars

\* The program after weeks of uptime, when millis() is about to wrap: the
\* top of loop with the link up and the server listening, every prediction
\* cycle so far having failed and the last of them just over.  No time
\* passes between the iterations of loop.
\* 2^32 - n
U32Below(n) == U32Sub(U32(0), U32(n))

\* the values of millis() the runs start from: well before the wrap, and
\* less than the read timeout before it
LateMillis ==
  {U32Below(3 * ReadTimeout), U32Below(ReadTimeout),
   U32Below(ReadTimeout \div 2), U32Below(1)}

InitLate ==
  /\ pc = "loop"
  /\ now \in LateMillis
  /\ wifiStatus = "WL_CONNECTED"
  /\ retryCount = 0
  /\ listening = TRUE
  /\ backlog = <<>>
  /\ client = NoClient
  /\ request = <<>>
  /\ timeout = U32(0)
  /\ predictedAQI = InitialPrediction.predictedAQI
  /\ predictedHumidity = InitialPrediction.predictedHumidity
  /\ predictedTemperature = InitialPrediction.predictedTemperature
  /\ predictionAvailable = InitialPrediction.predictionAvailable
  /\ lastPredictionTime = U32Sub(now, U32(PostDelay))
  /\ currentMillis = U32(0)
  /\ nextConn = 1
  /\ accepts = 0
  /\ events = <<>>
  /\ page = NoPage
  /\ lastCall = NoCall
  /\ lastGood = <<0, 0, 0>>
  /\ firstPage = NoPage
  /\ cycles = <<NoCycle, NoCycle>>

NextLate ==
  \/ LoopStart
  \/ ReadIter
  \/ Respond
  \/ IntervalCheck
  \/ LoopReturn
  \/ LinkChange
  \/ Connect
  \/ ClientSend
  \/ ClientClose

SpecLate == InitLate /\ [][NextLate]_vars

\* ------------------------------------------------------------------------
\* Properties of getPredictions (checked on SpecPredict)
\* ------------------------------------------------------------------------

\* does pat occur in text
Contains(text, pat) == \E i \in 0..Len(text) : MatchAt(text, pat, i)

\* does pat occur in text at or after the first occurrence of the marker
ContainsFromMarker(text, pat) ==
  \E i \in 0..Len(text) :
    /\ MatchAt(text, Marker, i)
    /\ \A h \in 0..(i - 1) : ~MatchAt(text, Marker, h)
    /\ \E j \in i..Len(text) : MatchAt(text, pat, j)

\* a getPredictions call has just returned, and its POST was answered with a
\* positive status code
AnsweredCall ==
  lastCall.called /\ lastCall.posted /\ lastCall.in.httpResponseCode > 0

\* the body of the response of the call that has just returned
LastBody == BodyText[lastCall.in.body]

\* C1: a response with a positive status code whose body lacks the marker or
\* one of the three keys leaves the four globals as they were before the call.
C1_IncompleteResponseKeepsState ==
  (/\ AnsweredCall
   /\ \/ ~Contains(LastBody, Marker)
      \/ \E k \in Keys : ~Contains(LastBody, KeyText(k)))
    => PredictionState = lastCall.pre

\* C1 witness: the body without the aqi key arrived when a prediction was
\* stored, and the stored prediction is still there.
C1_Witness ==
  /\ AnsweredCall
  /\ Contains(LastBody, Marker)
  /\ ~Contains(LastBody, KeyAqi)
  /\ Contains(LastBody, KeyHumidity)
  /\ lastCall.pre.predictionAvailable
  /\ lastCall.pre.predictedAQI = 61200
  /\ PredictionState = lastCall.pre

\* are the three keys members of the object that is the value of the
\* next_day_predictions key
KeysInsideObject(d) ==
  d.marker /\ \A k \in Keys : \E i \in DOMAIN d.inner : d.inner[i] = k

\* predictionAvailable went from false to true in the call that has just
\* returned
BecameAvailable ==
  lastCall.called /\ ~lastCall.pre.predictionAvailable /\ predictionAvailable

\* C2 as stated: predictionAvailable goes from false to true only on a body
\* with all three keys inside the object that is the value of the
\* next_day_predictions key.
C2_Original_KeysInsideObject ==
  BecameAvailable => (AnsweredCall /\ KeysInsideObject(lastCall.in.body))

\* C2 as amended: predictionAvailable goes from false to true only on a
\* response with a positive status code whose body has the marker and has each
\* of the three key literals somewhere at or after the first marker.
C2_KeysAfterMarker ==
  BecameAvailable =>
    /\ AnsweredCall
    /\ \A k \in Keys : ContainsFromMarker(LastBody, KeyText(k))

\* C2 witness: predictionAvailable became true on a body whose predictions
\* object is empty and whose three keys follow that object.
C2_Witness ==
  /\ BecameAvailable
  /\ lastCall.in.body.inner = <<>>
  /\ lastCall.in.body.post = 2
  /\ predictedAQI = 700

\* a body of exactly the documented shape, with numbers as values
ExactShape(d) ==
  /\ d.pre = 0 /\ d.marker /\ d.post = 0 /\ d.inner = Canonical
  /\ \A k \in Keys : ValIsNumber(d.vals, k)

\* C3: on a body of exactly the documented shape, received with a positive
\* status code while the link is connected and the sensor read is valid, the
\* call ends with the three values of the body and predictionAvailable true.
C3_DocumentedShapeIsStored ==
  (/\ lastCall.called
   /\ lastCall.status = "WL_CONNECTED"
   /\ ~isnan(lastCall.in.temperature) /\ ~isnan(lastCall.in.humidity)
   /\ lastCall.in.httpResponseCode > 0
   /\ ExactShape(lastCall.in.body))
    => /\ predictedAQI = ValNumber(lastCall.in.body.vals, "aqi")
       /\ predictedHumidity = ValNumber(lastCall.in.body.vals, "humidity")
       /\ predictedTemperature = ValNumber(lastCall.in.body.vals, "temperature")
       /\ predictionAvailable

\* C3 witness: the documented example has been received and stored.
C3_Witness ==
  /\ AnsweredCall
  /\ lastCall.in.body = DocumentedBody
  /\ PredictionState = [predictedAQI |-> 10418, predictedHumidity |-> 7321,
                        predictedTemperature |-> 3171,
                        predictionAvailable |-> TRUE]
  /\ lastCall.pre # PredictionState

\* C4: a call made while the link is not connected issues no POST and leaves
\* the four globals unchanged.
C4_NoLinkNoPost ==
  (lastCall.called /\ lastCall.status # "WL_CONNECTED")
    => (~lastCall.posted /\ PredictionState = lastCall.pre)

\* C4 witness: a call found the link down when the sensors were fine and the
\* endpoint would have answered with the documented body.
C4_Witness ==
  /\ lastCall.called
  /\ lastCall.status = "WL_DISCONNECTED"
  /\ ~isnan(lastCall.in.temperature) /\ ~isnan(lastCall.in.humidity)
  /\ lastCall.in.httpResponseCode = 200
  /\ lastCall.in.body = DocumentedBody
  /\ ~lastCall.posted
  /\ ~predictionAvailable

\* C5: a call whose sensor read gives not-a-number for temperature or for
\* humidity issues no POST and leaves the four globals unchanged.
C5_NanAbortsRequest ==
  (/\ lastCall.called
   /\ isnan(lastCall.in.temperature) \/ isnan(lastCall.in.humidity))
    => (~lastCall.posted /\ PredictionState = lastCall.pre)

\* C5 witness: with the link up, a call read a valid temperature and
\* not-a-number for humidity, and sent nothing.
C5_Witness ==
  /\ lastCall.called
  /\ lastCall.status = "WL_CONNECTED"
  /\ ~isnan(lastCall.in.temperature)
  /\ isnan(lastCall.in.humidity)
  /\ ~lastCall.posted
  /\ PredictionState = lastCall.pre

\* ------------------------------------------------------------------------
\* Properties of handleClient and loop (checked on Spec)
\* ------------------------------------------------------------------------

\* handleClient has just returned from serving a connection
PageServed == page.conn # 0

\* C6: when the temperature or the humidity read of handleClient is
\* not-a-number, the page shows 0.0 for that reading, and the page is written
\* in full and the connection closed as for any other read.
C6_NanRendersZero ==
  PageServed =>
    /\ isnan(page.temperature) => page.trace[6] = "0.0 &deg;C"
    /\ isnan(page.humidity) => page.trace[8] = "0.0 %"
    /\ (isnan(page.temperature) \/ isnan(page.humidity)) =>
         /\ page.trace[1] = "HTTP/1.1 200 OK"
         /\ page.trace[Len(page.trace) - 1] = Footer
         /\ page.trace[Len(page.trace)] = Stop

\* C6 witness: the temperature read failed, the humidity read did not, and
\* the page sent shows 0.0 degrees.
C6_Witness ==
  /\ PageServed
  /\ isnan(page.temperature)
  /\ page.humidity = 6010
  /\ page.trace[6] = "0.0 &deg;C"
  /\ page.trace[Len(page.trace)] = Stop

\* the label the thresholds 150, 300, 450 and 600 give to x (hundredths)
LabelIs(x, label) ==
  /\ x < 15000 => label = "Excellent"
  /\ (15000 <= x /\ x < 30000) => label = "Good"
  /\ (30000 <= x /\ x < 45000) => label = "Fair"
  /\ (45000 <= x /\ x < 60000) => label = "Poor"
  /\ 60000 <= x => label = "Very Poor"

\* the labels from best to worst
LabelRank(label) ==
  CASE label = "Excellent" -> 1
    [] label = "Good" -> 2
    [] label = "Fair" -> 3
    [] label = "Poor" -> 4
    [] label = "Very Poor" -> 5
    [] OTHER -> 0

\* values around every threshold, in hundredths
ClassifierInputs ==
  {0 - 550, 0, 14900, 14999, 15000, 15001, 29900, 29999, 30000, 30001,
   44900, 44999, 45000, 45001, 59900, 59999, 60000, 60001, 409500}

\* C7: interpretAirQuality is a monotone step function with the labels at
\* x<150, 150<=x<300, 300<=x<450, 450<=x<600 and x>=600, and a page labels
\* the raw gas reading and the predicted AQI by that same function.
C7_ClassifierThresholds ==
  /\ \A x \in ClassifierInputs : LabelIs(x, interpretAirQuality(x))
  /\ \A x, y \in ClassifierInputs :
       x <= y => LabelRank(interpretAirQuality(x))
                   <= LabelRank(interpretAirQuality(y))
  /\ PageServed =>
       /\ LabelIs(page.mq135Raw * 100, page.trace[12])
       /\ page.pred.predictionAvailable =>
            LabelIs(page.pred.predictedAQI, page.trace[21])

\* C7 witness: a page with the raw reading 150 labelled Good and the
\* predicted AQI 612.00 labelled Very Poor.
C7_Witness ==
  /\ PageServed
  /\ page.mq135Raw = 150
  /\ page.trace[12] = "Good"
  /\ page.pred.predictionAvailable
  /\ page.pred.predictedAQI = 61200
  /\ page.trace[21] = "Very Poor"

\* the three values of a prediction state, in the order of lastGood
TripleOf(pred) ==
  <<pred.predictedAQI, pred.predictedHumidity, pred.predictedTemperature>>

\* C8: a page that shows predictions shows the three values one response
\* gave together, never values of two different responses; and whenever
\* predictionAvailable is true the three globals are those of one response.
C8_NoMixedTriple ==
  /\ predictionAvailable => TripleOf(PredictionState) = lastGood
  /\ (PageServed /\ page.pred.predictionAvailable) =>
       /\ TripleOf(page.pred) = lastGood
       /\ page.trace[19] = Fmt2(lastGood[1])
       /\ page.trace[17] = Fmt2(lastGood[2]) \o " %"
       /\ page.trace[15] = Fmt2(lastGood[3]) \o " &deg;C"

\* C8 witness: a page rendered after a prediction cycle of loop replaced the
\* values of the boot cycle shows the second response's three values.
C8_Witness ==
  /\ PageServed
  /\ page.pred.predictionAvailable
  /\ lastPredictionTime # U32(0)
  /\ lastGood = <<61200, 4050, 0 - 550>>
  /\ page.trace[19] = "612.00"
  /\ page.trace[17] = "40.50 %"
  /\ page.trace[15] = "-5.50 &deg;C"

\* is the connection accepted at events[i] closed before events[j]
ClosedBetween(i, j) ==
  \E k \in (i + 1)..(j - 1) : events[k] = <<"stop", events[i][2]>>

\* C9: one loop iteration accepts at most one connection, and a connection
\* is accepted only when every connection accepted before it has been closed,
\* so two pending connections are served one after the other.
C9_OneAtATime ==
  /\ accepts <= 1
  /\ \A i, j \in DOMAIN events :
       (i < j /\ events[i][1] = "accept" /\ events[j][1] = "accept")
         => ClosedBetween(i, j)

\* C9 witness: two connections were pending together; the second is accepted
\* after the first was closed.
C9_Witness ==
  /\ pc = "read"
  /\ client.id = 2
  /\ events = <<<<"accept", 1, 1>>, <<"stop", 1>>, <<"accept", 2, 0>>>>

\* the four header lines of every response
Headers ==
  <<"HTTP/1.1 200 OK", "Content-Type: text/html; charset=UTF-8",
    "Connection: close", "">>

\* is every connection accepted so far closed
AllClosed ==
  \A i \in DOMAIN events :
    events[i][1] = "accept" => ClosedBetween(i, Len(events) + 1)

\* C10: whatever was received, a served connection sees the 200 status line,
\* the two headers, the blank line and the whole document, and is closed
\* right after the last part of the document; outside handleClient no
\* accepted connection is left open.
C10_AlwaysFullResponse ==
  /\ PageServed =>
       /\ Len(page.trace) \in {16, 24}
       /\ SubSeq(page.trace, 1, 4) = Headers
       /\ page.trace[5] = "<html: head, style, header, temperature card>"
       /\ page.trace[Len(page.trace) - 1] = Footer
       /\ page.trace[Len(page.trace)] = Stop
       /\ \A i \in 1..(Len(page.trace) - 1) : page.trace[i] # Stop
       /\ \A i \in 2..Len(page.trace) : page.trace[i] # Headers[1]
  /\ pc # "read" => AllClosed

\* C10 witness: a client that sent one byte and no terminator within the
\* timeout was sent the whole response and closed.
C10_Witness ==
  /\ PageServed
  /\ ~page.terminated
  /\ page.request = <<"G">>
  /\ SubSeq(page.trace, 1, 4) = Headers
  /\ page.trace[Len(page.trace) - 1] = Footer
  /\ page.trace[Len(page.trace)] = Stop
  /\ AllClosed

\* ------------------------------------------------------------------------
\* The response and the request (checked on SpecRequest)
\* ------------------------------------------------------------------------

\* were the page just served and the first page served rendered from the
\* same sensor readings and the same prediction
SameInputs ==
  /\ PageServed
  /\ firstPage.conn # 0
  /\ page.temperature = firstPage.temperature
  /\ page.humidity = firstPage.humidity
  /\ page.mq135Raw = firstPage.mq135Raw
  /\ page.pred = firstPage.pred

\* C11: two handleClient calls with the same sensor readings and the same
\* prediction state write the same response, whatever each of them received
\* as its request.
C11_ResponseIgnoresRequest ==
  SameInputs => page.trace = firstPage.trace

\* C11 witness: a connection that sent a whole request and a later one that
\* sent one byte and no terminator were written the same response.
C11_Witness ==
  /\ SameInputs
  /\ page.conn # firstPage.conn
  /\ firstPage.request = RequestLine \o <<"\r", "\n">>
  /\ firstPage.terminated
  /\ page.request = <<"G">>
  /\ ~page.terminated
  /\ page.trace = firstPage.trace
  /\ Len(page.trace) >= 16

\* ------------------------------------------------------------------------
\* Failures of a prediction cycle (checked on SpecPredict)
\* ------------------------------------------------------------------------

\* C12: a getPredictions call whose POST returns a status code that is not
\* positive leaves the four globals as they were before the call.
C12_FailedPostKeepsState ==
  (lastCall.called /\ lastCall.posted /\ lastCall.in.httpResponseCode <= 0)
    => PredictionState = lastCall.pre

\* C12 witness: a POST returned -1 when a prediction was stored, and the
\* stored prediction is still there.
C12_Witness ==
  /\ lastCall.called
  /\ lastCall.posted
  /\ lastCall.in.httpResponseCode = 0 - 1
  /\ lastCall.pre.predictionAvailable
  /\ lastCall.pre.predictedAQI = 61200
  /\ PredictionState = lastCall.pre

\* ------------------------------------------------------------------------
\* Progress of the loop and of the read phase (checked on SpecLive)
\* ------------------------------------------------------------------------

\* is connection c waiting to be accepted
Pending(c) == \E i \in DOMAIN backlog : backlog[i].id = c

\* is the program in the read phase of handleClient
InReadPhase == pc \in {"read", "read_inner", "read_delay"}

\* C13: the loop keeps iterating, and every connection that becomes pending
\* is eventually served the page, whatever failed before.
C13_EveryPendingServed ==
  /\ []<>(pc = "loop")
  /\ \A c \in 1..MaxConns : Pending(c) ~> (page.conn = c)

\* C18: the read phase of handleClient always ends: once a connection has
\* been accepted, the handler gets to the sensor read and the response.
C18_ReadPhaseEnds ==
  InReadPhase ~> (pc = "interval")

\* ------------------------------------------------------------------------
\* The timing of the prediction cycles (checked on SpecPredict)
\* ------------------------------------------------------------------------

\* loop has just run a prediction cycle
LoopCycleRan == pc = "iter_end" /\ lastCall.called

\* the time from the start of the cycle before the last to the start of the
\* last cycle
SincePreviousCycle == U32Sub(cycles[2].at, cycles[1].at)

\* C14: loop runs a prediction cycle only when at least 60 s have passed
\* since the most recent cycle, be it the one of setup or one of loop.
C14_SixtySecondsBetweenCycles ==
  (LoopCycleRan /\ cycles[1].by # "none")
    => U32Ge(SincePreviousCycle, U32(API_INTERVAL))

\* ------------------------------------------------------------------------
\* The text and the numbers extracted (checked on SpecPredict)
\* ------------------------------------------------------------------------

\* the 0-based index of the first occurrence of pat in text
FirstAt(text, pat) ==
  CHOOSE i \in 0..Len(text) :
    MatchAt(text, pat, i) /\ \A h \in 0..(i - 1) : ~MatchAt(text, pat, h)

\* is the character of text at 0-based index i a comma or a closing brace
IsDelimiter(text, i) == text[i + 1] \in {",", "}"}

\* the 0-based index of the first comma or closing brace of text at or after
\* from
FirstDelimiter(text, from) ==
  CHOOSE i \in from..(Len(text) - 1) :
    IsDelimiter(text, i) /\ \A h \in from..(i - 1) : ~IsDelimiter(text, h)

\* the text from the first marker on
FromMarker(text) == Slice(text, FirstAt(text, Marker), Len(text))

\* the text between the end of key and the first comma or closing brace that
\* follows, without the white space around it
TextAfterKey(sec, key) ==
  trim(Slice(sec, FirstAt(sec, key) + Len(key),
             FirstDelimiter(sec, FirstAt(sec, key) + Len(key))))

\* an answered call whose body has the three keys after the marker
AllKeysFound ==
  AnsweredCall /\ \A k \in Keys : ContainsFromMarker(LastBody, KeyText(k))

\* what the call that has just returned extracted
Extracted == ParseTable[lastCall.in.body]

\* C15: for each key, the text getPredictions extracts is the text between
\* the end of the key and the first comma or closing brace after it,
\* whichever comes first, in whatever order the keys appear.
C15_TextUpToFirstDelimiter ==
  AllKeysFound =>
    /\ Extracted.aqiStr = TextAfterKey(FromMarker(LastBody), KeyAqi)
    /\ Extracted.humStr = TextAfterKey(FromMarker(LastBody), KeyHumidity)
    /\ Extracted.tempStr = TextAfterKey(FromMarker(LastBody), KeyTemperature)

\* t without a leading minus sign
Unsigned0(t) == IF t # <<>> /\ Head(t) = "-" THEN Tail(t) ELSE t

\* is u digits with at most one decimal point among them
IsDecimal(u) ==
  /\ \E i \in DOMAIN u : IsDigit(u[i])
  /\ \A i \in DOMAIN u : IsDigit(u[i]) \/ u[i] = "."
  /\ Cardinality({i \in DOMAIN u : u[i] = "."}) <= 1

\* is the text t a number
IsNumberText(t) == IsDecimal(Unsigned0(t))

\* C16: when the three keys are there after the marker but the text
\* extracted for one of them is not a number, the call leaves the four
\* globals as they were.
C16_InvalidNumberKeepsState ==
  (/\ AllKeysFound
   /\ \/ ~IsNumberText(Extracted.aqiStr)
      \/ ~IsNumberText(Extracted.humStr)
      \/ ~IsNumberText(Extracted.tempStr))
    => PredictionState = lastCall.pre

\* ------------------------------------------------------------------------
\* connectToWiFi (checked on SpecConnect)
\* ------------------------------------------------------------------------

\* connectToWiFi has made at most 20 polls, 1 s apart
PollsBounded ==
  /\ retryCount <= 20
  /\ pc \in {"wifi_poll", "wifi_check"} =>
       U32ToInt(now) = SetupDelay + retryCount * 1000

\* C17: connectToWiFi ends after at most 20 polls one second apart; it starts
\* the listening socket exactly when the link is connected at the check that
\* follows the polling, and nothing starts the socket at any other point.
C17_BoundedAssociation ==
  /\ []PollsBounded
  /\ (pc = "wifi_poll") ~> (pc = "boot_predict")
  /\ [][(pc = "wifi_check" /\ pc' # "wifi_check")
          => (listening' <=> wifiStatus = "WL_CONNECTED")]_vars
  /\ [][pc # "wifi_check" => listening' = listening]_vars

\* C17 witness: the association failed after 20 polls; the link has come up
\* since and loop is running, and the socket is not listening.
C17_Witness ==
  /\ pc = "loop"
  /\ ~listening
  /\ wifiStatus = "WL_CONNECTED"
  /\ U32Ge(now, U32(SetupDelay + 20 * 1000))
  /\ lastPredictionTime # U32(0)

\* ------------------------------------------------------------------------
\* Failed cycles and the interval (checked on SpecPredict)
\* ------------------------------------------------------------------------

\* C19: a cycle of loop that fails still sets lastPredictionTime to the start
\* time of its iteration, and a cycle that follows a failed cycle of loop
\* starts at least 60 s after the iteration of the failed one started.
C19_NoEarlyRetry ==
  /\ (LoopCycleRan /\ cycles[2].failed) =>
       (lastPredictionTime = currentMillis /\ cycles[2].at = currentMillis)
  /\ (LoopCycleRan /\ cycles[1].by = "loop" /\ cycles[1].failed) =>
       U32Ge(SincePreviousCycle, U32(API_INTERVAL))

\* C19 witness: a cycle of loop failed at 60 s, and the next cycle is the
\* one of the iteration that starts at 120 s.
C19_Witness ==
  /\ LoopCycleRan
  /\ cycles[1].by = "loop"
  /\ cycles[1].failed
  /\ cycles[1].at = U32(60000)
  /\ cycles[2].at = U32(120000)
  /\ currentMillis = U32(120000)

\* ------------------------------------------------------------------------
\* Who writes the prediction state (checked on Spec)
\* ------------------------------------------------------------------------

\* C20: the four globals change only in a step that is a getPredictions
\* call, made by setup or by the interval test of loop; handleClient,
\* connectToWiFi and the rest of loop leave them as they are.
C20_OnlyGetPredictionsWrites ==
  [][predVars' # predVars =>
       (pc \in {"boot_predict", "interval"} /\ lastCall'.called)]_vars

\* C20 witness: handleClient has served a page from a stored prediction that
\* a cycle of loop had written, and the prediction is as it was rendered.
C20_Witness ==
  /\ PageServed
  /\ page.pred.predictionAvailable
  /\ page.pred.predictedAQI = 61200
  /\ PredictionState = page.pred
  /\ lastPredictionTime # U32(0)

\* ------------------------------------------------------------------------
\* predictionAvailable and the page (checked on SpecPages)
\* ------------------------------------------------------------------------

\* before setup has called getPredictions
BeforeFirstCycle == pc \in {"setup", "wifi_poll", "wifi_check", "boot_predict"}

\* C21: predictionAvailable is false at boot and no step takes it from true
\* to false; a page that is served shows the "Predictions Loading"
\* placeholder exactly when predictionAvailable is false as it is rendered,
\* and the predicted values exactly when it is true; and once a page has
\* shown predicted values, no page served later shows the placeholder,
\* whatever prediction cycles fail in between.
C21_AvailableIsMonotone ==
  /\ [](BeforeFirstCycle => ~predictionAvailable)
  /\ [][predictionAvailable => predictionAvailable']_vars
  /\ [][(page' # page /\ page'.conn # 0) =>
          /\ ShowsPlaceholder(page'.trace) <=> ~predictionAvailable
          /\ ShowsPredicted(page'.trace) <=> predictionAvailable]_vars
  /\ [](firstPage.conn # 0 /\ PageServed
          => ~ShowsPlaceholder(page.trace) /\ ShowsPredicted(page.trace))

\* C21 witness: a page showed predicted values, then a prediction cycle of
\* loop failed, then a later connection was served a page, and that page
\* shows predicted values.
C21_Witness ==
  /\ firstPage.conn # 0
  /\ PageServed
  /\ page.conn # firstPage.conn
  /\ cycles[2].by = "loop"
  /\ cycles[2].failed
  /\ ShowsPredicted(page.trace)
  /\ ~ShowsPlaceholder(page.trace)

\* ------------------------------------------------------------------------
\* The read deadline when millis() wraps (checked on SpecLate)
\* ------------------------------------------------------------------------

\* the time since loop read millis() for this iteration, which is the time
\* since the connection was accepted
SinceAccept == U32Sub(now, currentMillis)

\* the client has sent the terminator: it is in what was read or in what
\* waits to be read
TerminatorSent == Contains(request \o client.avail, Terminator)

\* handleClient leaves the read phase for the response
LeavesReadPhase == pc = "read" /\ pc' = "interval"

\* C22: whatever millis() is when the connection is accepted, if the client
\* is still connected and has sent the terminator when handleClient leaves
\* the read phase, and less than 2 s have passed since the accept, then the
\* request was read up to the terminator.
C22_ReadUpToTerminator ==
  [][(/\ LeavesReadPhase
      /\ client.open
      /\ TerminatorSent
      /\ U32Lt(SinceAccept, U32(ReadTimeout)))
       => endsWith(request, Terminator) /\ page'.terminated]_vars

====
